---- MODULE Spec2Model ----
(***************************************************************************)
(* PDFSearch: the ingestion pipeline (scripts/ingest.py: extraction,       *)
(* chunking with overlap and sentence-boundary snapping, full reindex of   *)
(* the vector store) and the query pipeline (scripts/query.py: search,     *)
(* rerank, gated generation).                                              *)
(*                                                                         *)
(* A text is a sequence of runs [c |-> character, n |-> repeat count],     *)
(* n >= 1: the string c1*n1 + c2*n2 + ...  Offsets are Python's, 0-based.  *)
(***************************************************************************)
EXTENDS Integers, Sequences, FiniteSets, TLC

VARIABLES
    \* chunk_text(text, filename): ingest.py 64-119
    input_text,     \* history: the text argument as passed
    text,           \* the parameter, then (line 78) the stripped text
    filename,       \* the parameter
    start,          \* cursor
    chunk_index,    \* next index to hand out
    chunks,         \* the list being built / returned
    cpc,            \* "idle" | "entry" | "loop" | "done"
    windows,        \* history: one [start, end, kept, idx] per loop iteration
    \* ingest_pdfs(): ingest.py 122-222
    pdf_dir,        \* the documents of PDF_DIR, in the order glob lists them
    collection,     \* the "pdf_chunks" collection: whether it exists, and
                    \* the records written to it since it was created
    failed_log,     \* failed_files.txt: whether it exists, and its lines
    pdf_files,      \* line 155
    failed_files,   \* line 163
    all_chunks,     \* line 164
    full_text,      \* line 170
    pages,          \* line 170
    doc_i,          \* position of the for loop of line 167 (1-based)
    batch_i,        \* i of the for loop of line 198
    written,        \* history: the ids handed to collection.add, this run
    final_count,    \* line 220
    ipc,            \* "idle" | "start" | "scan" | "docs" | "chunking" |
                    \* "store" | "returned" | "raised"
    runs,           \* history: how many runs have been started
    prev_records,   \* history: the records the previous run left
    \* QueryPipeline: query.py 47-226
    openai_client,  \* TRUE: an OpenAI client; FALSE: None (lines 62-68)
    entry,          \* the method called: "query" | "rerank" | "search"
    verbose,        \* query's parameter
    top_k,          \* rerank's parameter, or search's
    search_results, \* query's local; the list rerank sorts in place
    reranked_results,   \* query's local; what rerank returns
    answer,         \* what generate returns
    result,         \* the dict query returns
    qpc,            \* "idle" | "search" | "rerank" | "generate" | "result"
                    \* | "returned" | "raised"
    rerank_input,   \* history: rerank's results argument as passed
    predict_calls,  \* history: calls of reranker.predict
    pairs_scored,   \* history: pairs handed to reranker.predict
    create_calls,   \* history: calls of chat.completions.create
    store_response, \* history: what collection.query returned
    gen_outcome     \* history: what chat.completions.create did

chunkVars ==
    <<input_text, text, filename, start, chunk_index, chunks, cpc, windows>>

ingestVars ==
    <<pdf_dir, collection, failed_log, pdf_files, failed_files, all_chunks,
      full_text, pages, doc_i, batch_i, written, final_count, ipc, runs,
      prev_records>>

queryVars ==
    <<openai_client, entry, verbose, top_k, search_results, reranked_results,
      answer, result, qpc, rerank_input, predict_calls, pairs_scored,
      create_calls, store_response, gen_outcome>>

vars == <<chunkVars, ingestVars, queryVars>>

(***************************************************************************)
(* Configuration: ingest.py 30-33, 73-75, 91-92.                           *)
(***************************************************************************)
CHUNK_SIZE_TOKENS == 512
CHUNK_OVERLAP_TOKENS == 50
MIN_CHUNK_TOKENS == 50
APPROX_CHARS_PER_TOKEN == 4
SEARCH_MARGIN == 100

chunk_size_chars == CHUNK_SIZE_TOKENS * APPROX_CHARS_PER_TOKEN
overlap_chars == CHUNK_OVERLAP_TOKENS * APPROX_CHARS_PER_TOKEN
min_chunk_chars == MIN_CHUNK_TOKENS * APPROX_CHARS_PER_TOKEN

\* The sentence terminators, in the order the loop of line 96 tries them.
Separators ==
    << <<".", " ">>, <<".", "\n">>, <<"?", " ">>,
       <<"!", "\n">>, <<"!", " ">>, <<"?", "\n">> >>

(***************************************************************************)
(* Strings as runs.                                                        *)
(***************************************************************************)
Min2(a, b) == IF a <= b THEN a ELSE b
Max2(a, b) == IF a >= b THEN a ELSE b
SetMin(S) == CHOOSE x \in S : \A y \in S : x <= y
SetMax(S) == CHOOSE x \in S : \A y \in S : x >= y

\* The characters str.strip() removes.
IsSpace(c) == c \in {" ", "\n"}

RECURSIVE TextLen(_)
\* len(text)
TextLen(t) == IF t = <<>> THEN 0 ELSE Head(t).n + TextLen(Tail(t))

\* Offset of the first character of run k (k may be Len(t) + 1: the end).
RunStart(t, k) == TextLen(SubSeq(t, 1, k - 1))

\* text[i], 0 <= i < len(text)
CharAt(t, i) ==
    LET k == CHOOSE j \in 1..Len(t) :
                 RunStart(t, j) <= i /\ i < RunStart(t, j) + t[j].n
    IN t[k].c

RECURSIVE LStrip(_)
LStrip(t) == IF t # <<>> /\ IsSpace(Head(t).c) THEN LStrip(Tail(t)) ELSE t

RECURSIVE RStrip(_)
RStrip(t) ==
    IF t # <<>> /\ IsSpace(t[Len(t)].c)
    THEN RStrip(SubSeq(t, 1, Len(t) - 1))
    ELSE t

\* text.strip() of a whole text: runs are homogeneous, so stripping drops the
\* leading and trailing runs of whitespace.
Strip(t) == RStrip(LStrip(t))

\* text[lo:hi].strip(), as the span [lo, hi) of offsets that remains
\* (lo = hi: the empty string).  Python clips hi to len(text).
SliceStrip(t, lo, hi) ==
    LET e == Min2(hi, TextLen(t))
        ks == {k \in 1..Len(t) :
                  /\ ~IsSpace(t[k].c)
                  /\ RunStart(t, k) < e
                  /\ RunStart(t, k) + t[k].n > lo}
    IN IF ks = {} \/ lo >= e
       THEN [lo |-> lo, hi |-> lo]
       ELSE [lo |-> SetMin({Max2(lo, RunStart(t, k)) : k \in ks}),
             hi |-> SetMax({Min2(e, RunStart(t, k) + t[k].n) : k \in ks})]

SpanLen(s) == s.hi - s.lo

\* text[lo:hi].rfind(sep) for a two-character sep of two different
\* characters: the index, relative to lo, of the rightmost occurrence that
\* lies wholly inside [lo, hi), or -1.  Two different adjacent characters
\* only meet where one run ends and the next begins.
RFind(t, lo, hi, sep) ==
    LET occ == {RunStart(t, k + 1) - 1 : k \in
                  {j \in 1..(Len(t) - 1) :
                      /\ t[j].c = sep[1]
                      /\ t[j + 1].c = sep[2]
                      /\ RunStart(t, j + 1) - 1 >= lo
                      /\ RunStart(t, j + 1) + 1 <= hi}}
    IN IF occ = {} THEN -1 ELSE SetMax(occ) - lo

(***************************************************************************)
(* chunk_text, one loop iteration (ingest.py 86-117).                      *)
(***************************************************************************)
\* Mutant of WindowEnd: the rightmost terminator of any kind is taken.
WindowEnd_RightmostAny(t, s) ==
    LET end == s + chunk_size_chars IN
    IF end < TextLen(t)
    THEN LET search_start == Max2(s + chunk_size_chars - SEARCH_MARGIN, s)
             search_end == Min2(s + chunk_size_chars + SEARCH_MARGIN, TextLen(t))
             found == {RFind(t, search_start, search_end, Separators[i]) :
                          i \in 1..Len(Separators)} \ {-1}
         IN IF found = {} THEN end ELSE search_start + SetMax(found) + 2
    ELSE end

\* Lines 86-100: the end of the window that starts at s.
WindowEnd(t, s) ==
    LET end == s + chunk_size_chars IN
    IF end < TextLen(t)
    THEN LET search_start == Max2(s + chunk_size_chars - SEARCH_MARGIN, s)
             search_end == Min2(s + chunk_size_chars + SEARCH_MARGIN, TextLen(t))
             hits == {i \in 1..Len(Separators) :
                         RFind(t, search_start, search_end, Separators[i]) # -1}
         IN IF hits = {}
            THEN end
            ELSE LET sep == Separators[SetMin(hits)]
                     last_sep == RFind(t, search_start, search_end, sep)
                 IN search_start + last_sep + Len(sep)
    ELSE end

\* Mutant of TooShort: the early return left out.
TooShort_Never(t) == FALSE

\* Line 79: the stripped text is too short to chunk.
TooShort(t) == TextLen(t) < min_chunk_chars

\* Mutant of NextIndex: every window takes an index.
NextIndex_EveryWindow(idx, keep) == idx + 1

\* Lines 105, 112: the index goes up when a chunk is appended.
NextIndex(idx, keep) == IF keep THEN idx + 1 ELSE idx

\* Mutant of KeepChunk: the comparison made strict.
KeepChunk_Strict(span) == SpanLen(span) > min_chunk_chars

\* Mutant of KeepChunk: one character less is enough.
KeepChunk_OneLess(span) == SpanLen(span) >= min_chunk_chars - 1

\* Line 105: only keep chunks above minimum length.
KeepChunk(span) == SpanLen(span) >= min_chunk_chars

\* Mutant of NextStart: the overlap forgotten.
NextStart_NoOverlap(end) == end

\* Mutant of NextStart: the overlap added instead of taken off.
NextStart_Gap(end) == end + overlap_chars

\* Mutant of NextStart: the cursor goes back to the beginning.
NextStart_Rewinds(end) == 0

\* Mutant of NextStart: the cursor goes back a whole window.
NextStart_WholeWindow(end) == end - chunk_size_chars

\* Line 115: move start position with overlap.
NextStart(end) == end - overlap_chars

\* Line 116: remaining text too small for another chunk.
LoopBreaks(t, s) == s >= TextLen(t) - min_chunk_chars

\* Lines 106-111
MakeChunk(span, fname, idx) ==
    [text |-> span, filename |-> fname, page_numbers |-> <<1>>,
     chunk_index |-> idx]

\* One pass through the loop body from cursor s with next index idx: the
\* window's end, the stripped span, whether it is kept, the next cursor, and
\* whether the loop runs again (no break at 116 and the condition of 85).
Iteration(t, s) ==
    LET end == WindowEnd(t, s)
        span == SliceStrip(t, s, end)
        next == NextStart(end)
    IN [end |-> end, span |-> span, keep |-> KeepChunk(span), next |-> next,
        again |-> ~LoopBreaks(t, next) /\ next < TextLen(t)]

(***************************************************************************)
(* The texts chunk_text is called with: concatenations of at most          *)
(* MaxBlocks blocks.                                                       *)
(***************************************************************************)
MaxBlocks == 4

Run(c, n) == [c |-> c, n |-> n]

Blocks ==
    { <<Run("a", 1)>>,
      <<Run("a", min_chunk_chars - 1)>>,
      <<Run("a", chunk_size_chars - min_chunk_chars + 1)>>,
      <<Run("a", chunk_size_chars - SEARCH_MARGIN)>>,
      <<Run(" ", 1)>>,
      <<Run(" ", chunk_size_chars - min_chunk_chars)>>,
      <<Run(" ", chunk_size_chars)>> }
    \cup { <<Run(Separators[i][1], 1), Run(Separators[i][2], 1)>> :
             i \in 1..Len(Separators) }

RECURSIVE TextsUpTo(_)
TextsUpTo(n) ==
    IF n = 0 THEN {<<>>}
    ELSE LET prev == TextsUpTo(n - 1)
         IN prev \cup {b \o t : b \in Blocks, t \in prev}

Texts == TextsUpTo(MaxBlocks)

(***************************************************************************)
(* The parts of the state a specification does not exercise.               *)
(***************************************************************************)
IdleChunk ==
    /\ input_text = <<>>
    /\ text = <<>>
    /\ filename = ""
    /\ start = 0
    /\ chunk_index = 0
    /\ chunks = <<>>
    /\ cpc = "idle"
    /\ windows = <<>>

IdleIngest ==
    /\ pdf_dir = <<>>
    /\ collection = [exists |-> FALSE, records |-> <<>>]
    /\ failed_log = [exists |-> FALSE, lines |-> <<>>]
    /\ pdf_files = <<>>
    /\ failed_files = <<>>
    /\ all_chunks = <<>>
    /\ full_text = <<>>
    /\ pages = <<>>
    /\ doc_i = 0
    /\ batch_i = 0
    /\ written = <<>>
    /\ final_count = 0
    /\ ipc = "idle"
    /\ runs = 0
    /\ prev_records = <<>>

IdleQuery ==
    /\ openai_client = FALSE
    /\ entry = "none"
    /\ verbose = FALSE
    /\ top_k = 0
    /\ search_results = <<>>
    /\ reranked_results = <<>>
    /\ answer = ""
    /\ result = [answer |-> ""]
    /\ qpc = "idle"
    /\ rerank_input = <<>>
    /\ predict_calls = 0
    /\ pairs_scored = 0
    /\ create_calls = 0
    /\ store_response = [documents |-> <<>>, metadatas |-> <<>>,
                         distances |-> <<>>]
    /\ gen_outcome = [kind |-> "none", text |-> ""]

(***************************************************************************)
(* chunk_text as a state machine.                                          *)
(***************************************************************************)
InitChunk ==
    /\ input_text \in Texts
    /\ text = input_text
    /\ filename = "doc.pdf"
    /\ start = 0
    /\ chunk_index = 0
    /\ chunks = <<>>
    /\ cpc = "entry"
    /\ windows = <<>>
    /\ IdleIngest
    /\ IdleQuery

\* Lines 70-83: strip, the too-short return, the cursor's start.
ChunkEnter ==
    /\ cpc = "entry"
    /\ text' = Strip(text)
    /\ chunks' = <<>>
    /\ start' = 0
    /\ chunk_index' = 0
    /\ cpc' = IF TooShort(text') THEN "done"
              ELSE IF 0 < TextLen(text') THEN "loop" ELSE "done"
    /\ UNCHANGED <<input_text, filename, windows>>
    /\ UNCHANGED <<ingestVars, queryVars>>

\* Lines 85-117: one iteration of the while loop, and the test that decides
\* whether another follows.
ChunkIterate ==
    /\ cpc = "loop"
    /\ LET it == Iteration(text, start)
       IN /\ chunks' = IF it.keep
                       THEN Append(chunks,
                                MakeChunk(it.span, filename, chunk_index))
                       ELSE chunks
          /\ chunk_index' = NextIndex(chunk_index, it.keep)
          /\ windows' = Append(windows,
                 [start |-> start, end |-> it.end, kept |-> it.keep,
                  idx |-> chunk_index])
          /\ start' = it.next
          /\ cpc' = IF it.again THEN "loop" ELSE "done"
    /\ UNCHANGED <<input_text, text, filename>>
    /\ UNCHANGED <<ingestVars, queryVars>>

NextChunk == ChunkEnter \/ ChunkIterate

SpecChunk == InitChunk /\ [][NextChunk]_vars

\* The texts of the calls whose return is checked: at most MaxCallBlocks
\* blocks.
MaxCallBlocks == 3

\* Before chunk_text is called.
InitChunkCall ==
    /\ IdleChunk
    /\ IdleIngest
    /\ IdleQuery

\* Line 64: chunk_text is called with a text and a file name.
ChunkCall ==
    /\ cpc = "idle"
    /\ input_text' \in TextsUpTo(MaxCallBlocks)
    /\ text' = input_text'
    /\ filename' = "doc.pdf"
    /\ cpc' = "entry"
    /\ UNCHANGED <<start, chunk_index, chunks, windows>>
    /\ UNCHANGED <<ingestVars, queryVars>>

NextChunkCall == ChunkCall \/ ChunkEnter \/ ChunkIterate

\* A call may or may not be made; the interpreter always takes the next
\* step of a call that has been made.
SpecChunkFair ==
    InitChunkCall /\ [][NextChunkCall]_vars /\ WF_vars(NextChunk)

(***************************************************************************)
(* Properties of chunk_text.                                               *)
(***************************************************************************)
\* The longest run of consecutive whitespace characters of t.
LongestSpaceRun(t) ==
    LET spans == {<<i, j>> \in (1..Len(t)) \X (1..Len(t)) :
                     i <= j /\ \A k \in i..j : IsSpace(t[k].c)}
    IN IF spans = {} THEN 0
       ELSE SetMax({RunStart(t, p[2] + 1) - RunStart(t, p[1]) : p \in spans})

\* C1 as stated: every input text of at least min_chunk_chars characters
\* (counted before trimming) yields at least one chunk.
C1_LongTextYieldsChunk_AsStated ==
    (cpc = "done" /\ TextLen(input_text) >= min_chunk_chars)
        => Len(chunks) >= 1

\* C1 amended: every input text whose length after trimming is at least
\* min_chunk_chars, and which holds no run of whitespace longer than
\* chunk_size_chars - min_chunk_chars, yields at least one chunk.
C1_LongTextYieldsChunk ==
    (/\ cpc = "done"
     /\ TextLen(Strip(input_text)) >= min_chunk_chars
     /\ LongestSpaceRun(Strip(input_text))
            <= chunk_size_chars - min_chunk_chars)
        => Len(chunks) >= 1

\* A text longer than one window, trimmed on entry, whose longest whitespace
\* run is exactly the largest the amended claim admits, has been chunked.
C1_Witness ==
    /\ cpc = "done"
    /\ TextLen(input_text) > TextLen(text)
    /\ TextLen(text) > chunk_size_chars
    /\ LongestSpaceRun(text) = chunk_size_chars - min_chunk_chars
    /\ Len(chunks) >= 1

\* C2 as stated: for every two emitted chunks with consecutive chunk_index
\* values, the cursor at which the later one was cut lies strictly before
\* the end at which the earlier one was cut.
C2_AdjacentChunksOverlap_AsStated ==
    \A i, j \in 1..Len(windows) :
        (/\ windows[i].kept
         /\ windows[j].kept
         /\ windows[j].idx = windows[i].idx + 1)
            => windows[j].start < windows[i].end

\* C2 amended: for every two chunks emitted by consecutive loop iterations
\* (no discarded window between them), the cursor at which the later one
\* was cut lies strictly before the end at which the earlier one was cut.
C2_AdjacentChunksOverlap ==
    \A i \in 1..(Len(windows) - 1) :
        (windows[i].kept /\ windows[i + 1].kept)
            => windows[i + 1].start < windows[i].end

\* Two consecutive iterations both emitted a chunk, the first one ending at
\* a snapped sentence boundary.
C2_Witness ==
    \E i \in 1..(Len(windows) - 1) :
        /\ windows[i].kept
        /\ windows[i + 1].kept
        /\ windows[i].end # windows[i].start + chunk_size_chars

\* C12: every chunk of the list chunk_text builds has at least
\* min_chunk_chars characters, and neither begins nor ends with whitespace.
C12_ChunksAtLeastMinimum ==
    \A k \in 1..Len(chunks) :
        LET c == chunks[k].text
        IN /\ SpanLen(c) >= min_chunk_chars
           /\ ~IsSpace(CharAt(text, c.lo))
           /\ ~IsSpace(CharAt(text, c.hi - 1))

\* chunk_text has returned a chunk of exactly min_chunk_chars characters
\* cut from a window that held more, and has dropped a window.
C12_Witness ==
    /\ cpc = "done"
    /\ \E k \in 1..Len(chunks) : SpanLen(chunks[k].text) = min_chunk_chars
    /\ \E i \in 1..Len(windows) :
          /\ windows[i].kept
          /\ SpanLen(chunks[windows[i].idx + 1].text) = min_chunk_chars
          /\ Min2(windows[i].end, TextLen(text)) - windows[i].start
                 > min_chunk_chars
    /\ \E i \in 1..Len(windows) : ~windows[i].kept

\* C13: the chunks of the list chunk_text builds carry the indices 0, 1,
\* ..., n-1 in list order, and the next index to hand out is n.
C13_IndicesContiguous ==
    /\ \A k \in 1..Len(chunks) : chunks[k].chunk_index = k - 1
    /\ cpc \in {"loop", "done"} => chunk_index = Len(chunks)

\* chunk_text has returned chunks cut before and after a dropped window.
C13_Witness ==
    /\ cpc = "done"
    /\ \E i, j, k \in 1..Len(windows) :
          /\ i < j /\ j < k
          /\ windows[i].kept
          /\ ~windows[j].kept
          /\ windows[k].kept

\* C14: for a text whose length after stripping is below min_chunk_chars,
\* chunk_text returns the empty list, and returns it before the loop.
C14_ShortTextYieldsNothing ==
    (cpc = "done" /\ TextLen(Strip(input_text)) < min_chunk_chars) =>
        /\ chunks = <<>>
        /\ windows = <<>>

\* chunk_text has returned for a text that is long enough as passed, and
\* too short once stripped, but not empty.
C14_Witness ==
    /\ cpc = "done"
    /\ TextLen(input_text) >= min_chunk_chars
    /\ TextLen(text) < min_chunk_chars
    /\ TextLen(text) > 0
    /\ chunks = <<>>

\* The cursor the loop went on with after iteration i.
CursorAfter(i) == IF i < Len(windows) THEN windows[i + 1].start ELSE start

C20_ChunkTextTerminates ==
    /\ [][cpc = "loop" =>
            /\ TextLen(text) - start > 0
            /\ TextLen(text') - start' < TextLen(text) - start]_vars
    /\ (cpc = "entry") ~> (cpc = "done")

\* chunk_text has returned after three iterations of the loop, left by the
\* test for too little remaining text with characters still after the
\* cursor.
C20_Witness ==
    /\ cpc = "done"
    /\ Len(windows) >= 3
    /\ start < TextLen(text)

\* C21: once the loop has moved the cursor, it has stopped if fewer than
\* min_chunk_chars characters remain after the cursor, and goes on if
\* min_chunk_chars or more remain.
C21_StopsBelowThreshold ==
    windows # <<>> =>
        /\ cpc = "done" => TextLen(text) - start < min_chunk_chars
        /\ cpc = "loop" => TextLen(text) - start >= min_chunk_chars

\* The offsets in lo..hi-2 at which the two characters of sep stand in t.
\* Two different characters only stand side by side where a run begins.
OccurrencesIn(t, lo, hi, sep) ==
    LET begins == {RunStart(t, k) : k \in 1..Len(t)}
    IN {p \in lo..(hi - 2) :
           /\ (p + 1) \in begins
           /\ CharAt(t, p) = sep[1]
           /\ CharAt(t, p + 1) = sep[2]}

\* The end C22 gives the window that starts at s: the tentative end, or,
\* when that lies before the end of the text, the offset after the
\* rightmost occurrence, within SEARCH_MARGIN characters on either side of
\* it, of the first terminator of the list that occurs there at all.
SnappedEnd(t, s) ==
    LET raw == s + chunk_size_chars
        lo == raw - SEARCH_MARGIN
        hi == Min2(raw + SEARCH_MARGIN, TextLen(t))
        found == {i \in 1..Len(Separators) :
                     OccurrencesIn(t, lo, hi, Separators[i]) # {}}
    IN IF raw >= TextLen(t) \/ found = {} THEN raw
       ELSE SetMax(OccurrencesIn(t, lo, hi, Separators[SetMin(found)])) + 2

\* C22: the end of every window the loop has cut is the tentative end
\* start + chunk_size_chars when that is at or past the end of the text or
\* no sentence terminator occurs within 100 characters on either side of
\* it, and otherwise the offset just after the rightmost occurrence there
\* of the first terminator of the list that occurs there.
C22_SentenceSnapping ==
    \A i \in 1..Len(windows) :
        windows[i].end = SnappedEnd(text, windows[i].start)

\* A window has been snapped to a terminator that comes earlier in the
\* list although one that comes later in the list occurs further right in
\* the searched region.
C22_Witness ==
    \E i \in 1..Len(windows) :
        LET raw == windows[i].start + chunk_size_chars
            hi == Min2(raw + SEARCH_MARGIN, TextLen(text))
        IN /\ raw < TextLen(text)
           /\ windows[i].end # raw
           /\ \E j \in 1..Len(Separators) :
                 OccurrencesIn(text, windows[i].end, hi, Separators[j]) # {}

\* Offset p lies in a window the loop has cut.
InWindow(p) ==
    \E i \in 1..Len(windows) : windows[i].start <= p /\ p < windows[i].end

\* Offset p lies in a chunk of the list.
InOutput(p) ==
    \E k \in 1..Len(chunks) : chunks[k].text.lo <= p /\ p < chunks[k].text.hi

\* Of a text that is not empty there are windows: they begin at 0, each
\* next one begins overlap_chars before the end of the one before, and the
\* last one reaches the end of the text.
WindowsChained ==
    TextLen(text) > 0 =>
        /\ windows # <<>>
        /\ windows[1].start = 0
        /\ \A i \in 1..(Len(windows) - 1) :
              windows[i + 1].start = windows[i].end - overlap_chars
        /\ windows[Len(windows)].end >= TextLen(text)

\* Every offset of the text lies in a window.  An offset outside every
\* window, if there is one, is found at 0 or at the end of a window.
WindowsCover ==
    \A p \in {0} \cup {windows[i].end : i \in 1..Len(windows)} :
        p < TextLen(text) => InWindow(p)

\* C26 as stated: for a text of at least min_chunk_chars characters as
\* passed, when chunk_text has returned the windows are chained from 0 to
\* the end of the stripped text and cover it, and the characters of a
\* window that was kept are in the output: its first one, and the one
\* after its chunk.
C26_WindowsCoverText_AsStated ==
    (cpc = "done" /\ TextLen(input_text) >= min_chunk_chars) =>
        /\ WindowsChained
        /\ WindowsCover
        /\ \A i \in 1..Len(windows) :
              windows[i].kept =>
                  LET c == chunks[windows[i].idx + 1].text
                  IN /\ InOutput(windows[i].start)
                     /\ c.hi < Min2(windows[i].end, TextLen(text))
                            => InOutput(c.hi)

\* C26 amended: for a text of at least min_chunk_chars characters once
\* stripped, when chunk_text has returned the windows are chained from 0
\* to the end of the stripped text and cover it, and every character of a
\* window that was kept, other than whitespace, is in that window's chunk.
C26_WindowsCoverText ==
    (cpc = "done" /\ TextLen(Strip(input_text)) >= min_chunk_chars) =>
        /\ WindowsChained
        /\ WindowsCover
        /\ \A i \in 1..Len(windows) :
              windows[i].kept =>
                  LET c == chunks[windows[i].idx + 1].text
                      lo == windows[i].start
                      hi == Min2(windows[i].end, TextLen(text))
                  IN \A k \in 1..Len(text) :
                        LET a == Max2(lo, RunStart(text, k))
                            b == Min2(hi, RunStart(text, k + 1))
                        IN (~IsSpace(text[k].c) /\ a < b) =>
                               (c.lo <= a /\ b <= c.hi)

\* chunk_text has returned after three windows or more, one of them
\* dropped, and one kept whose chunk is shorter than the window by the
\* whitespace stripped from it.
C26_Witness ==
    /\ cpc = "done"
    /\ Len(windows) >= 3
    /\ \E i \in 1..Len(windows) : ~windows[i].kept
    /\ \E i \in 1..Len(windows) :
          /\ windows[i].kept
          /\ chunks[windows[i].idx + 1].text.lo > windows[i].start
          /\ windows[i].end < TextLen(text)

(***************************************************************************)
(* extract_text_from_pdf (ingest.py 45-61).  A document is                 *)
(* [name, readable, error, pages]; a page is [extracted, t]: extracted is  *)
(* FALSE when page.extract_text() returns None.                            *)
(***************************************************************************)
\* Line 57: page.extract_text() or ""
PageText(page) == IF page.extracted THEN page.t ELSE <<>>

RECURSIVE JoinNewline(_)
\* Line 61: "\n".join(full_text_parts)
JoinNewline(parts) ==
    IF parts = <<>> THEN <<>>
    ELSE IF Len(parts) = 1 THEN parts[1]
    ELSE parts[1] \o <<[c |-> "\n", n |-> 1]>> \o JoinNewline(Tail(parts))

\* Mutant of ExtractText: the pages counted from 0.
ExtractText_ZeroBased(doc) ==
    [full_text |-> JoinNewline([i \in 1..Len(doc.pages) |->
                                   PageText(doc.pages[i])]),
     pages |-> [i \in 1..Len(doc.pages) |->
                   <<i - 1, PageText(doc.pages[i])>>]]

\* Lines 52-61, for a document pypdf can read.
ExtractText(doc) ==
    [full_text |-> JoinNewline([i \in 1..Len(doc.pages) |->
                                   PageText(doc.pages[i])]),
     pages |-> [i \in 1..Len(doc.pages) |-> <<i, PageText(doc.pages[i])>>]]

(***************************************************************************)
(* ingest_pdfs (ingest.py 122-222).                                        *)
(***************************************************************************)
batch_size == 100

\* Mutant of ClearedCollection: an existing collection is kept as it is.
ClearedCollection_KeepsExisting(c) ==
    IF c.exists THEN c ELSE [exists |-> TRUE, records |-> <<>>]

\* Lines 137-152: the collection after the clearing and get_or_create.
ClearedCollection(c) ==
    IF c.exists /\ Len(c.records) > 0
    THEN [exists |-> TRUE, records |-> <<>>]       \* deleted, then created
    ELSE IF c.exists THEN c                        \* empty: kept
    ELSE [exists |-> TRUE, records |-> <<>>]       \* missing: created

RECURSIVE JoinComma(_)
\* Line 207: ",".join(map(str, chunk.page_numbers))
JoinComma(nums) ==
    IF nums = <<>> THEN ""
    ELSE IF Len(nums) = 1 THEN ToString(nums[1])
    ELSE ToString(nums[1]) \o "," \o JoinComma(Tail(nums))

\* Mutant of RecordId: the filename left out of the id.
RecordId_IndexOnly(chunk) == ToString(chunk.chunk_index)

\* Line 202: f"{chunk.filename}_{chunk.chunk_index}"
RecordId(chunk) == chunk.filename \o "_" \o ToString(chunk.chunk_index)

\* Mutant of MakeRecord: the pages left out of the metadata.
MakeRecord_NoPages(chunk) ==
    [id |-> RecordId(chunk),
     document |-> chunk.text,
     metadata |-> [filename |-> chunk.filename,
                   chunk_index |-> chunk.chunk_index]]

\* Lines 202-208: what collection.add receives for one chunk.
MakeRecord(chunk) ==
    [id |-> RecordId(chunk),
     document |-> chunk.text,
     metadata |-> [filename |-> chunk.filename,
                   chunk_index |-> chunk.chunk_index,
                   page_numbers |-> JoinComma(chunk.page_numbers)]]

\* Mutant of Batch: the slice one element short.
Batch_OneShort(all, i) ==
    SubSeq(all, i + 1, Min2(i + batch_size - 1, Len(all)))

\* Line 199: all_chunks[i:i + batch_size], i a 0-based offset.
Batch(all, i) == SubSeq(all, i + 1, Min2(i + batch_size, Len(all)))

\* Lines 201-209: collection.add(ids, documents, metadatas).
CollectionAdd(c, batch) ==
    [c EXCEPT !.records = @ \o [k \in 1..Len(batch) |-> MakeRecord(batch[k])]]

\* Mutant of AfterExtract: an exception of the extraction leaves the loop.
AfterExtract_Aborts(doc, failed) ==
    IF ~doc.readable
    THEN [failed_files |-> failed, go |-> "raised", full_text |-> <<>>]
    ELSE LET ex == ExtractText(doc)
         IN IF Strip(ex.full_text) = <<>>
            THEN [failed_files |->
                      Append(failed, <<doc.name, "No text content">>),
                  go |-> "next", full_text |-> ex.full_text]
            ELSE [failed_files |-> failed, go |-> "chunk",
                  full_text |-> ex.full_text]

\* Lines 168-178 and 187-189: the body of the for loop up to the call of
\* chunk_text: the failure list after it, and how the body goes on ("chunk":
\* chunk_text is called with full_text; "next": the next document; "raised":
\* an exception leaves the loop).
AfterExtract(doc, failed) ==
    IF ~doc.readable
    THEN \* 187-189: pypdf raised; str(e) is recorded
         [failed_files |-> Append(failed, <<doc.name, doc.error>>),
          go |-> "next", full_text |-> <<>>]
    ELSE LET ex == ExtractText(doc)
         IN IF Strip(ex.full_text) = <<>>
            THEN [failed_files |->
                      Append(failed, <<doc.name, "No text content">>),
                  go |-> "next", full_text |-> ex.full_text]
            ELSE [failed_files |-> failed, go |-> "chunk",
                  full_text |-> ex.full_text]

\* Mutant of AfterChunks: a document without chunks is passed over in
\* silence.
AfterChunks_Silent(name, cs, failed, all) ==
    [failed_files |-> failed, all_chunks |-> all \o cs]

\* Lines 180-185: the two lists after chunk_text has returned cs.
AfterChunks(name, cs, failed, all) ==
    IF cs = <<>>
    THEN [failed_files |-> Append(failed, <<name, "Text too short">>),
          all_chunks |-> all]
    ELSE [failed_files |-> failed, all_chunks |-> all \o cs]

\* Line 167: where the for loop goes after the document at position i.
AfterDoc(i, files) == IF i >= Len(files) THEN "store" ELSE "docs"

\* Lines 214-216: the file as open(..., 'w') and the writes leave it.
WriteFailedLog(failed) ==
    [exists |-> TRUE,
     lines |-> [k \in 1..Len(failed) |-> failed[k][1] \o ": " \o failed[k][2]]]

(***************************************************************************)
(* The corpora and the stores ingest_pdfs starts from.                     *)
(***************************************************************************)
MaxDocs == 2
MaxRuns == 2

FileNames == {"a.pdf", "a_1.pdf", "a.pdf_1.pdf"}

Page(t) == [extracted |-> TRUE, t |-> t]

\* What a document can hold: unreadable; no page; a page without text; a
\* blank page; too little text; one chunk; two pages, two chunks; text
\* drowned in whitespace (no chunk); more chunks than one batch holds.
Contents ==
    { [readable |-> FALSE, error |-> "EOF marker not found", pages |-> <<>>],
      [readable |-> TRUE, error |-> "", pages |-> <<>>],
      [readable |-> TRUE, error |-> "",
       pages |-> <<[extracted |-> FALSE, t |-> <<>>], Page(<<Run(" ", 1)>>)>>],
      [readable |-> TRUE, error |-> "",
       pages |-> <<Page(<<Run("a", min_chunk_chars - 1)>>)>>],
      [readable |-> TRUE, error |-> "",
       pages |-> <<Page(<<Run("a", min_chunk_chars)>>)>>],
      [readable |-> TRUE, error |-> "",
       pages |-> <<Page(<<Run("a", chunk_size_chars)>>),
                   Page(<<Run("a", 1), Run(".", 1)>>)>>],
      [readable |-> TRUE, error |-> "",
       pages |-> <<Page(<<Run("a", 1), Run(" ", chunk_size_chars)>>),
                   Page(<<Run("a", 1)>>)>>],
      [readable |-> TRUE, error |-> "",
       pages |-> <<Page(<<Run("a",
                    (batch_size + 1) * (chunk_size_chars - overlap_chars)
                        + min_chunk_chars)>>)>>] }

Doc(name, content) ==
    [name |-> name, readable |-> content.readable, error |-> content.error,
     pages |-> content.pages]

RECURSIVE CorporaUpTo(_)
\* The directory listings of at most n documents: distinct file names.
CorporaUpTo(n) ==
    IF n = 0 THEN {<<>>}
    ELSE LET prev == CorporaUpTo(n - 1)
         IN prev \cup
            {Append(cp, Doc(nm, ct)) :
                <<cp, nm, ct>> \in
                    {x \in prev \X FileNames \X Contents :
                        \A k \in 1..Len(x[1]) : x[1][k].name # x[2]}}

Corpora == CorporaUpTo(MaxDocs)

\* A generation left by an earlier run over another corpus.
OldGeneration ==
    [k \in 1..3 |->
        MakeRecord(MakeChunk([lo |-> 0, hi |-> min_chunk_chars],
                             <<"old.pdf", "a.pdf", "a.pdf">>[k],
                             <<0, 0, 7>>[k]))]

PriorCollections ==
    { [exists |-> FALSE, records |-> <<>>],
      [exists |-> TRUE, records |-> <<>>],
      [exists |-> TRUE, records |-> OldGeneration] }

PriorLogs ==
    { [exists |-> FALSE, lines |-> <<>>],
      [exists |-> TRUE, lines |-> <<"old.pdf: No text content">>] }

InitIngest ==
    /\ IdleChunk
    /\ IdleQuery
    /\ pdf_dir \in Corpora
    /\ collection \in PriorCollections
    /\ failed_log \in PriorLogs
    /\ pdf_files = <<>>
    /\ failed_files = <<>>
    /\ all_chunks = <<>>
    /\ full_text = <<>>
    /\ pages = <<>>
    /\ doc_i = 0
    /\ batch_i = 0
    /\ written = <<>>
    /\ final_count = 0
    /\ ipc = "start"
    /\ runs = 1
    /\ prev_records = collection.records

\* Lines 125-152: open the store, clear the existing collection, create it.
IngestOpen ==
    /\ ipc = "start"
    /\ collection' = ClearedCollection(collection)
    /\ ipc' = "scan"
    /\ UNCHANGED <<pdf_dir, failed_log, pdf_files, failed_files, all_chunks,
                   doc_i, batch_i, written, final_count, runs, prev_records>>
    /\ UNCHANGED <<chunkVars, queryVars>>
    /\ UNCHANGED <<full_text, pages>>

\* Lines 154-164: list the PDFs; return when there is none.
IngestScan ==
    /\ ipc = "scan"
    /\ pdf_files' = pdf_dir
    /\ failed_files' = <<>>
    /\ all_chunks' = <<>>
    /\ doc_i' = 1
    /\ ipc' = IF pdf_dir = <<>> THEN "returned" ELSE "docs"
    /\ UNCHANGED <<pdf_dir, collection, failed_log, batch_i, written,
                   final_count, runs, prev_records>>
    /\ UNCHANGED <<chunkVars, queryVars>>
    /\ UNCHANGED <<full_text, pages>>

\* Lines 167-178, 187-189: one document of the for loop, up to the call of
\* chunk_text or to the failure that ends its turn.
IngestExtract ==
    /\ ipc = "docs"
    /\ doc_i <= Len(pdf_files)
    /\ LET doc == pdf_files[doc_i]
           out == AfterExtract(doc, failed_files)
       IN /\ failed_files' = out.failed_files
          /\ full_text' = IF doc.readable THEN out.full_text ELSE full_text
          /\ pages' = IF doc.readable THEN ExtractText(doc).pages ELSE pages
          /\ IF out.go = "chunk"
             THEN /\ input_text' = out.full_text
                  /\ text' = out.full_text
                  /\ filename' = doc.name
                  /\ cpc' = "entry"
                  /\ windows' = <<>>
                  /\ ipc' = "chunking"
                  /\ doc_i' = doc_i
             ELSE /\ UNCHANGED <<input_text, text, filename, cpc, windows>>
                  /\ ipc' = IF out.go = "raised" THEN "raised"
                            ELSE AfterDoc(doc_i, pdf_files)
                  /\ doc_i' = doc_i + 1
    /\ batch_i' = 0
    /\ UNCHANGED <<start, chunk_index, chunks>>
    /\ UNCHANGED <<pdf_dir, collection, failed_log, pdf_files, all_chunks,
                   written, final_count, runs, prev_records>>
    /\ UNCHANGED queryVars

\* Lines 178-185: chunk_text has returned; keep its chunks or record the
\* document as too short; on to the next document.
IngestCollect ==
    /\ ipc = "chunking"
    /\ cpc = "done"
    /\ LET out == AfterChunks(filename, chunks, failed_files, all_chunks)
       IN /\ failed_files' = out.failed_files
          /\ all_chunks' = out.all_chunks
    /\ ipc' = AfterDoc(doc_i, pdf_files)
    /\ doc_i' = doc_i + 1
    /\ batch_i' = 0
    /\ cpc' = "idle"
    /\ UNCHANGED <<input_text, text, filename, start, chunk_index, chunks,
                   windows>>
    /\ UNCHANGED <<pdf_dir, collection, failed_log, pdf_files, written,
                   final_count, runs, prev_records>>
    /\ UNCHANGED queryVars
    /\ UNCHANGED <<full_text, pages>>

\* Lines 198-209: one batch of the for loop.
IngestStoreBatch ==
    /\ ipc = "store"
    /\ batch_i < Len(all_chunks)
    /\ LET batch == Batch(all_chunks, batch_i)
       IN /\ collection' = CollectionAdd(collection, batch)
          /\ written' = written \o
                 [k \in 1..Len(batch) |-> RecordId(batch[k])]
    /\ batch_i' = batch_i + batch_size
    /\ UNCHANGED <<pdf_dir, failed_log, pdf_files, failed_files, all_chunks,
                   doc_i, final_count, ipc, runs, prev_records>>
    /\ UNCHANGED <<chunkVars, queryVars>>
    /\ UNCHANGED <<full_text, pages>>

\* Lines 211-222: nothing (more) to store; log the failures; the summary.
IngestFinish ==
    /\ ipc = "store"
    /\ batch_i >= Len(all_chunks)
    /\ failed_log' = IF failed_files # <<>> THEN WriteFailedLog(failed_files)
                     ELSE failed_log
    /\ final_count' = Len(collection.records)
    /\ ipc' = "returned"
    /\ UNCHANGED <<pdf_dir, collection, pdf_files, failed_files, all_chunks,
                   doc_i, batch_i, written, runs, prev_records>>
    /\ UNCHANGED <<chunkVars, queryVars>>
    /\ UNCHANGED <<full_text, pages>>

\* ingest_pdfs is run again on the same directory.
IngestAgain ==
    /\ ipc = "returned"
    /\ runs < MaxRuns
    /\ runs' = runs + 1
    /\ prev_records' = collection.records
    /\ pdf_files' = <<>>
    /\ failed_files' = <<>>
    /\ all_chunks' = <<>>
    /\ full_text' = <<>>
    /\ pages' = <<>>
    /\ doc_i' = 0
    /\ batch_i' = 0
    /\ written' = <<>>
    /\ final_count' = 0
    /\ ipc' = "start"
    /\ UNCHANGED <<pdf_dir, collection, failed_log>>
    /\ UNCHANGED <<chunkVars, queryVars>>

NextIngest ==
    \/ IngestOpen
    \/ IngestScan
    \/ IngestExtract
    \/ ChunkEnter
    \/ ChunkIterate
    \/ IngestCollect
    \/ IngestStoreBatch
    \/ IngestFinish
    \/ IngestAgain

SpecIngest == InitIngest /\ [][NextIngest]_vars

(***************************************************************************)
(* Properties of ingest_pdfs.                                              *)
(***************************************************************************)
Ids(records) == {records[k].id : k \in 1..Len(records)}

RecordsOfFile(records, name) ==
    {records[k] : k \in {j \in 1..Len(records) :
                            records[j].metadata.filename = name}}

FailedNames == {failed_files[k][1] : k \in 1..Len(failed_files)}

\* C7: no two ids handed to collection.add during a run are equal, over
\* all documents and batches, and after a full run no two records of the
\* store share an id.
C7_RecordIdsUnique ==
    /\ Cardinality({written[k] : k \in 1..Len(written)}) = Len(written)
    /\ ipc = "returned" =>
          Cardinality(Ids(collection.records)) = Len(collection.records)

\* A run over two documents that wrote more than one batch has returned.
C7_Witness ==
    /\ ipc = "returned"
    /\ Len(collection.records) > batch_size
    /\ Cardinality({collection.records[k].metadata.filename :
                        k \in 1..Len(collection.records)}) >= 2

\* C8: a second run in a row over the same corpus leaves the store with the
\* same number of records and the same set of record ids as the first.
C8_ReindexIdempotent ==
    (ipc = "returned" /\ runs >= 2) =>
        /\ Len(collection.records) = Len(prev_records)
        /\ Ids(collection.records) = Ids(prev_records)

\* The second run over a corpus with a stored and a failed document has
\* returned.
C8_Witness ==
    /\ ipc = "returned"
    /\ runs = 2
    /\ collection.records # <<>>
    /\ failed_files # <<>>

\* C9: when a run has returned, whatever the store held before, the store
\* holds exactly the records of the chunks this run produced, in number
\* too, and every record belongs to a readable document of the corpus.
C9_ReindexReplaces ==
    ipc = "returned" =>
        /\ collection.exists
        /\ collection.records =
              [k \in 1..Len(all_chunks) |-> MakeRecord(all_chunks[k])]
        /\ pdf_files # <<>> => final_count = Len(all_chunks)
        /\ \A k \in 1..Len(collection.records) :
              \E j \in 1..Len(pdf_dir) :
                 /\ pdf_dir[j].name = collection.records[k].metadata.filename
                 /\ pdf_dir[j].readable

\* The first run over a store that held another generation has returned
\* with records stored and a document failed.
C9_Witness ==
    /\ ipc = "returned"
    /\ runs = 1
    /\ prev_records = OldGeneration
    /\ collection.records # <<>>
    /\ failed_files # <<>>

\* Extraction raises or yields no text.
DocIsBad(d) == ~d.readable \/ Strip(ExtractText(d).full_text) = <<>>

\* C10: when a run over a corpus is over, every document whose extraction
\* raised or gave no text is in the failure list, a document in the failure
\* list has no record in the store, and every other document has its
\* chunks, at least one, in the store: wherever the failed ones stand.
C10_FailureIsolation ==
    (ipc \in {"returned", "raised"} /\ pdf_dir # <<>>) =>
        \A k \in 1..Len(pdf_dir) :
            LET d == pdf_dir[k]
                listed == d.name \in FailedNames
                stored == RecordsOfFile(collection.records, d.name)
                mine == {MakeRecord(all_chunks[j]) :
                            j \in {i \in 1..Len(all_chunks) :
                                      all_chunks[i].filename = d.name}}
            IN /\ DocIsBad(d) => listed
               /\ listed => stored = {}
               /\ ~listed => (stored # {} /\ stored = mine)

\* A run has returned in which the first document could not be read and
\* the second one is in the store.
C10_Witness ==
    /\ ipc = "returned"
    /\ Len(pdf_dir) = 2
    /\ ~pdf_dir[1].readable
    /\ pdf_dir[1].name \in FailedNames
    /\ RecordsOfFile(collection.records, pdf_dir[2].name) # {}

\* The entries of the failure list that name document d.
FailuresOf(d) == {k \in 1..Len(failed_files) : failed_files[k][1] = d.name}

\* The chunks of all_chunks cut from document d.
ChunksOf(d) == {k \in 1..Len(all_chunks) : all_chunks[k].filename = d.name}

\* The reason the failure list is to give for a document without chunks:
\* the message of the exception, no text, or text too short.
ReasonFor(d) ==
    IF ~d.readable THEN d.error
    ELSE IF Strip(ExtractText(d).full_text) = <<>> THEN "No text content"
    ELSE "Text too short"

\* C11: when a run over a corpus has returned, every document either has at
\* least one chunk (and record in the store) and no entry in the failure
\* list, or has no chunk (and no record), and exactly one entry in the
\* failure list, whose reason is the exception's message if the extraction
\* raised, "No text content" if the extracted text is empty or blank, and
\* "Text too short" otherwise.
C11_OneOutcomePerDocument ==
    (ipc = "returned" /\ pdf_dir # <<>>) =>
        \A k \in 1..Len(pdf_dir) :
            LET d == pdf_dir[k]
                fs == FailuresOf(d)
                n == Cardinality(ChunksOf(d))
                stored == RecordsOfFile(collection.records, d.name)
            IN \/ /\ n >= 1
                  /\ Cardinality(stored) = n
                  /\ fs = {}
                  /\ d.readable
               \/ /\ n = 0
                  /\ stored = {}
                  /\ Cardinality(fs) = 1
                  /\ \A f \in fs : failed_files[f][2] = ReasonFor(d)

\* A run has returned that listed a document with text, but too little of
\* it between the blanks, as too short, and a document it could not read
\* with the message of the exception.
C11_Witness ==
    /\ ipc = "returned"
    /\ \E i, j \in 1..Len(pdf_dir) :
          /\ pdf_dir[i].readable
          /\ TextLen(ExtractText(pdf_dir[i]).full_text) > chunk_size_chars
          /\ \E f \in FailuresOf(pdf_dir[i]) :
                failed_files[f][2] = "Text too short"
          /\ ~pdf_dir[j].readable
          /\ \E f \in FailuresOf(pdf_dir[j]) :
                failed_files[f][2] = pdf_dir[j].error

\* The string made of the decimal numbers of nums with a comma between
\* each two.
CommaList(nums) ==
    LET upTo[k \in 0..Len(nums)] ==
            IF k = 0 THEN ""
            ELSE IF k = 1 THEN ToString(nums[1])
            ELSE upTo[k - 1] \o "," \o ToString(nums[k])
    IN upTo[Len(nums)]

\* C17: while a run stores and when it has returned, every record in the
\* store has the metadata fields filename, chunk_index and page_numbers,
\* they are those of the chunk it was made from, page_numbers as the
\* chunk's page list joined with commas, and its id is the metadata's
\* filename, an underscore, and the metadata's chunk_index.
C17_RecordMetadataComplete ==
    ipc \in {"store", "returned"} =>
        /\ Len(collection.records) <= Len(all_chunks)
        /\ \A k \in 1..Len(collection.records) :
              LET r == collection.records[k]
                  c == all_chunks[k]
              IN /\ DOMAIN r.metadata =
                        {"filename", "chunk_index", "page_numbers"}
                 /\ r.metadata.filename = c.filename
                 /\ r.metadata.filename # ""
                 /\ r.metadata.chunk_index = c.chunk_index
                 /\ r.metadata.chunk_index \in Nat
                 /\ r.metadata.page_numbers = CommaList(c.page_numbers)
                 /\ r.metadata.page_numbers # ""
                 /\ r.id = r.metadata.filename \o "_"
                               \o ToString(r.metadata.chunk_index)

\* A run that replaced an older generation has returned with the records
\* of two documents, one of them with an underscore in its name.
C17_Witness ==
    /\ ipc = "returned"
    /\ prev_records = OldGeneration
    /\ \E j, k \in 1..Len(collection.records) :
          /\ collection.records[j].metadata.filename = "a_1.pdf"
          /\ collection.records[k].metadata.filename = "a.pdf"
          /\ collection.records[k].metadata.chunk_index = 1

\* t1, "\n", t2, "\n", ..., tk
JoinedUpTo(ts, k) ==
    LET upTo[i \in 0..k] ==
            IF i = 0 THEN <<>>
            ELSE IF i = 1 THEN ts[1]
            ELSE upTo[i - 1] \o <<Run("\n", 1)>> \o ts[i]
    IN upTo[k]

\* C18: when the loop takes a document pypdf can read, extraction leaves
\* in pages one pair per page of the document, in page order, numbered
\* from 1, with the page's text, or the empty string where the page gives
\* none, and in full_text these texts with one newline between each two.
C18_ExtractPagesInOrder ==
    [][(ipc = "docs" /\ doc_i <= Len(pdf_files)
           /\ pdf_files[doc_i].readable) =>
         LET d == pdf_files[doc_i]
             n == Len(d.pages)
             ts == [i \in 1..n |->
                      IF d.pages[i].extracted THEN d.pages[i].t ELSE <<>>]
         IN /\ Len(pages') = n
            /\ \A i \in 1..n : pages'[i] = <<i, ts[i]>>
            /\ full_text' = JoinedUpTo(ts, n)]_vars

\* A document of two pages has been extracted whose first page gives no
\* text.
C18_Witness ==
    /\ Len(pages) = 2
    /\ pages[1] = <<1, <<>> >>
    /\ pages[2][1] = 2
    /\ pages[2][2] # <<>>
    /\ full_text = <<Run("\n", 1)>> \o pages[2][2]

\* C25: when a run has returned, the lines of failed_files.txt are those of
\* the documents that failed in this run, one "name: reason" line each, in
\* the order they failed: none when no document failed or no PDF was found.
C25_FailureLogIsLatestRun ==
    ipc = "returned" =>
        /\ Len(failed_log.lines) = Len(failed_files)
        /\ \A k \in 1..Len(failed_files) :
              failed_log.lines[k] =
                  failed_files[k][1] \o ": " \o failed_files[k][2]

(***************************************************************************)
(* QueryPipeline (query.py).  Distances and scores are floats in the code; *)
(* the model draws them from integers on both sides of, and on, the        *)
(* thresholds they are compared with.                                      *)
(***************************************************************************)
TOP_K_SEARCH == 20
TOP_K_RERANK == 5
DISTANCE_THRESHOLD == 1
SCORE_THRESHOLD == 0
PREVIEW_RESULTS == 5
PREVIEW_CHARS == 100

NO_INFO == "No relevant information found in the documents."
NO_KEY == "[Error: OpenAI API key not configured]"

MaxResults == 6
MaxTopK == 3

Distances == {DISTANCE_THRESHOLD, DISTANCE_THRESHOLD + 1}
Scores == {SCORE_THRESHOLD - 1, SCORE_THRESHOLD, SCORE_THRESHOLD + 1}

\* The record the store holds at rank i of a response.
StoredText(i) == <<Run("a", min_chunk_chars), Run(".", i)>>
StoredFile(i) == IF i % 2 = 1 THEN "a.pdf" ELSE "b.pdf"

\* Lines 81-84: what collection.query(query_texts, n_results) can return:
\* at most n_results matches, nearest first.
StoreResponses(n_results) ==
    UNION { { [documents |-> [i \in 1..n |-> StoredText(i)],
               metadatas |-> [i \in 1..n |->
                                [filename |-> StoredFile(i),
                                 chunk_index |-> i - 1]],
               distances |-> ds] :
                 ds \in {f \in [1..n -> Distances] :
                           \A i \in 1..(n - 1) : f[i] <= f[i + 1]} } :
            n \in 0..Min2(n_results, MaxResults) }

\* Mutant of Search: the matches taken last to first.
Search_Reversed(response) ==
    LET n == Len(response.documents)
    IN [i \in 1..n |->
          [text |-> response.documents[n + 1 - i],
           filename |-> response.metadatas[n + 1 - i].filename,
           chunk_index |-> response.metadatas[n + 1 - i].chunk_index,
           distance |-> response.distances[n + 1 - i],
           rerank_score |-> 0]]

\* Lines 86-95: one SearchResult per match.
Search(response) ==
    [i \in 1..Len(response.documents) |->
        [text |-> response.documents[i],
         filename |-> response.metadatas[i].filename,
         chunk_index |-> response.metadatas[i].chunk_index,
         distance |-> response.distances[i],
         rerank_score |-> 0]]

\* Mutant of SortByScoreDesc: lowest score first.
SortByScoreDesc_Ascending(rs) ==
    LET n == Len(rs)
        rank(j) == 1 + Cardinality({k \in 1..n :
                          \/ rs[k].rerank_score < rs[j].rerank_score
                          \/ (rs[k].rerank_score = rs[j].rerank_score /\ k < j)})
    IN [i \in 1..n |-> rs[CHOOSE j \in 1..n : rank(j) = i]]

\* Line 125: results.sort(key=score, reverse=True); the sort is stable, so
\* an element's place is the number of elements with a higher score, or
\* with the same score and an earlier place, plus one.
SortByScoreDesc(rs) ==
    LET n == Len(rs)
        rank(j) == 1 + Cardinality({k \in 1..n :
                          \/ rs[k].rerank_score > rs[j].rerank_score
                          \/ (rs[k].rerank_score = rs[j].rerank_score /\ k < j)})
    IN [i \in 1..n |-> rs[CHOOSE j \in 1..n : rank(j) = i]]

\* Line 126: results[:top_k], top_k >= 0
Prefix(seq, k) == SubSeq(seq, 1, Min2(k, Len(seq)))

\* Lines 111-126: rerank(query, results, top_k) when reranker.predict
\* returns scores: the list results as the call leaves it (scored and
\* sorted in place), the list returned, and the use made of the scorer.
Rerank(results, scores, k) ==
    IF results = <<>>
    THEN [results |-> results, returned |-> <<>>, predict_calls |-> 0,
          pairs |-> 0]
    ELSE LET scored == [i \in 1..Len(results) |->
                           [results[i] EXCEPT !.rerank_score = scores[i]]]
             sorted == SortByScoreDesc(scored)
         IN [results |-> sorted, returned |-> Prefix(sorted, k),
             predict_calls |-> 1, pairs |-> Len(results)]

\* Mutant of Gated: the sign of the score test turned.
Gated_SignTurned(results) ==
    /\ results[1].distance > DISTANCE_THRESHOLD
    /\ results[1].rerank_score > SCORE_THRESHOLD

\* Mutant of Gated: one of the two conditions is enough.
Gated_EitherCondition(results) ==
    \/ results[1].distance > DISTANCE_THRESHOLD
    \/ results[1].rerank_score < SCORE_THRESHOLD

\* Line 146: the best result is too far and scored negative.
Gated(results) ==
    /\ results[1].distance > DISTANCE_THRESHOLD
    /\ results[1].rerank_score < SCORE_THRESHOLD

\* What chat.completions.create can do: answer, raise, or answer with no
\* choice in the response.
Outcomes ==
    { [kind |-> "ok", text |-> "According to a.pdf, ..."],
      [kind |-> "raises", text |-> "Request timed out."],
      [kind |-> "malformed", text |-> "list index out of range"] }

\* Mutant of Completion: the exception's message without the frame.
Completion_Unframed(outcome) == outcome.text

\* Lines 175-188: the call, the reading of the response, the handler.
Completion(outcome) ==
    IF outcome.kind = "ok" THEN outcome.text
    ELSE "[Error generating response: " \o outcome.text \o "]"

\* Mutant of Generate: the tests for nothing to answer from made first.
Generate_GateFirst(client, results, outcome) ==
    IF results = <<>> THEN [answer |-> NO_INFO, created |-> 0]
    ELSE IF Gated(results) THEN [answer |-> NO_INFO, created |-> 0]
    ELSE IF ~client THEN [answer |-> NO_KEY, created |-> 0]
    ELSE [answer |-> Completion(outcome), created |-> 1]

\* Lines 139-188: generate(query, results): the answer, and how often
\* chat.completions.create was called.
Generate(client, results, outcome) ==
    IF ~client THEN [answer |-> NO_KEY, created |-> 0]
    ELSE IF results = <<>> THEN [answer |-> NO_INFO, created |-> 0]
    ELSE IF Gated(results) THEN [answer |-> NO_INFO, created |-> 0]
    ELSE [answer |-> Completion(outcome), created |-> 1]

RECURSIVE TakeChars(_, _)
\* text[:n]
TakeChars(t, n) ==
    IF t = <<>> \/ n <= 0 THEN <<>>
    ELSE IF Head(t).n >= n THEN <<[c |-> Head(t).c, n |-> n]>>
    ELSE <<Head(t)>> \o TakeChars(Tail(t), n - Head(t).n)

\* Lines 214-224: the dict query returns.
ResultDict(ans, verb, searched, reranked) ==
    IF verb
    THEN [answer |-> ans,
          search_results |->
              [i \in 1..Min2(PREVIEW_RESULTS, Len(searched)) |->
                  [filename |-> searched[i].filename,
                   distance |-> searched[i].distance]],
          reranked_results |->
              [i \in 1..Len(reranked) |->
                  [filename |-> reranked[i].filename,
                   score |-> reranked[i].rerank_score,
                   text_preview |-> TakeChars(reranked[i].text, PREVIEW_CHARS)]]]
    ELSE [answer |-> ans]

\* Lines 208-209: the verbose log line reads reranked_results[0].
LogTopResultRaises(verb, reranked) == verb /\ reranked = <<>>

InitQuery ==
    /\ IdleChunk
    /\ IdleIngest
    /\ openai_client \in BOOLEAN
    /\ entry \in {"query", "rerank", "search"}
    /\ IF entry = "query"
       THEN /\ verbose \in BOOLEAN
            /\ top_k = TOP_K_RERANK
            /\ search_results = <<>>
            /\ qpc = "search"
       ELSE IF entry = "search"
       THEN /\ verbose = FALSE
            /\ top_k \in 1..MaxTopK
            /\ search_results = <<>>
            /\ qpc = "search"
       ELSE /\ verbose = FALSE
            /\ top_k \in 0..MaxTopK
            /\ search_results \in
                  {Search(r) : r \in StoreResponses(TOP_K_SEARCH)}
            /\ qpc = "rerank"
    /\ reranked_results = <<>>
    /\ answer = ""
    /\ result = [answer |-> ""]
    /\ rerank_input = <<>>
    /\ predict_calls = 0
    /\ pairs_scored = 0
    /\ create_calls = 0
    /\ store_response = [documents |-> <<>>, metadatas |-> <<>>,
                         distances |-> <<>>]
    /\ gen_outcome = [kind |-> "none", text |-> ""]

\* Lines 201-204: stage 1.
QuerySearch ==
    /\ qpc = "search"
    /\ entry = "query"
    /\ \E response \in StoreResponses(TOP_K_SEARCH) :
          /\ store_response' = response
          /\ search_results' = Search(response)
    /\ qpc' = "rerank"
    /\ UNCHANGED <<openai_client, entry, verbose, top_k, reranked_results,
                   answer, result, rerank_input, predict_calls, pairs_scored,
                   create_calls, gen_outcome>>
    /\ UNCHANGED <<chunkVars, ingestVars>>

\* Lines 70-95: search called on its own, with any top_k.
SearchCall ==
    /\ qpc = "search"
    /\ entry = "search"
    /\ \E response \in StoreResponses(top_k) :
          /\ store_response' = response
          /\ search_results' = Search(response)
    /\ qpc' = "returned"
    /\ UNCHANGED <<openai_client, entry, verbose, top_k, reranked_results,
                   answer, result, rerank_input, predict_calls, pairs_scored,
                   create_calls, gen_outcome>>
    /\ UNCHANGED <<chunkVars, ingestVars>>

\* Lines 206-209: stage 2, and the verbose log line after it.
QueryRerank ==
    /\ qpc = "rerank"
    /\ entry = "query"
    /\ \E scores \in [1..Len(search_results) -> Scores] :
          LET r == Rerank(search_results, scores, top_k)
          IN /\ rerank_input' = search_results
             /\ search_results' = r.results
             /\ reranked_results' = r.returned
             /\ predict_calls' = predict_calls + r.predict_calls
             /\ pairs_scored' = pairs_scored + r.pairs
             /\ qpc' = IF LogTopResultRaises(verbose, r.returned)
                       THEN "raised" ELSE "generate"
    /\ UNCHANGED <<openai_client, entry, verbose, top_k, answer, result,
                   create_calls, store_response, gen_outcome>>
    /\ UNCHANGED <<chunkVars, ingestVars>>

\* Lines 97-126: rerank called on its own, with any top_k.
RerankCall ==
    /\ qpc = "rerank"
    /\ entry = "rerank"
    /\ \E scores \in [1..Len(search_results) -> Scores] :
          LET r == Rerank(search_results, scores, top_k)
          IN /\ rerank_input' = search_results
             /\ search_results' = r.results
             /\ reranked_results' = r.returned
             /\ predict_calls' = predict_calls + r.predict_calls
             /\ pairs_scored' = pairs_scored + r.pairs
    /\ qpc' = "returned"
    /\ UNCHANGED <<openai_client, entry, verbose, top_k, answer, result,
                   create_calls, store_response, gen_outcome>>
    /\ UNCHANGED <<chunkVars, ingestVars>>

\* Line 212: stage 3.
QueryGenerate ==
    /\ qpc = "generate"
    /\ \E outcome \in Outcomes :
          LET g == Generate(openai_client, reranked_results, outcome)
          IN /\ answer' = g.answer
             /\ create_calls' = create_calls + g.created
             /\ gen_outcome' = IF g.created = 1 THEN outcome
                                ELSE gen_outcome
    /\ qpc' = "result"
    /\ UNCHANGED <<openai_client, entry, verbose, top_k, search_results,
                   reranked_results, result, rerank_input, predict_calls,
                   pairs_scored, store_response>>
    /\ UNCHANGED <<chunkVars, ingestVars>>

\* Lines 214-226: the result.
QueryReturn ==
    /\ qpc = "result"
    /\ result' = ResultDict(answer, verbose, search_results, reranked_results)
    /\ qpc' = "returned"
    /\ UNCHANGED <<openai_client, entry, verbose, top_k, search_results,
                   reranked_results, answer, rerank_input, predict_calls,
                   pairs_scored, create_calls, store_response, gen_outcome>>
    /\ UNCHANGED <<chunkVars, ingestVars>>

NextQuery ==
    \/ QuerySearch
    \/ SearchCall
    \/ QueryRerank
    \/ RerankCall
    \/ QueryGenerate
    \/ QueryReturn

SpecQuery == InitQuery /\ [][NextQuery]_vars

(***************************************************************************)
(* Properties of the query pipeline, under SpecQuery.                      *)
(***************************************************************************)
\* generate has been called and has returned.
GenerateReturned == entry = "query" /\ qpc \in {"result", "returned"}

\* rerank has been called and has returned.
RerankReturned ==
    /\ entry \in {"query", "rerank"}
    /\ qpc \in {"generate", "raised", "result", "returned"}

\* The results handed to generate are empty, or their first one lies
\* farther than the distance threshold and has a negative score.
NothingRelevant ==
    \/ reranked_results = <<>>
    \/ /\ reranked_results[1].distance > DISTANCE_THRESHOLD
       /\ reranked_results[1].rerank_score < SCORE_THRESHOLD

\* C3 as stated: whenever generate was given no results, or results whose
\* first one is farther than 1.0 with a negative score, it returned "No
\* relevant information found in the documents.", with or without a client.
C3_GateIndependentOfClient_AsStated ==
    (GenerateReturned /\ NothingRelevant) => answer = NO_INFO

\* C3: whenever generate was given no results, or results whose first one is
\* farther than 1.0 with a negative score, it did not call the model; with
\* a client configured it returned "No relevant information found in the
\* documents.", and without one "[Error: OpenAI API key not configured]".
C3_GateIndependentOfClient ==
    (GenerateReturned /\ NothingRelevant) =>
        /\ create_calls = 0
        /\ openai_client => answer = NO_INFO
        /\ ~openai_client => answer = NO_KEY

\* generate, with a client, has turned down results that are not empty.
C3_Witness ==
    /\ GenerateReturned
    /\ openai_client
    /\ reranked_results # <<>>
    /\ NothingRelevant
    /\ answer = NO_INFO

\* C4: a call of query never raises, and when it has returned, its result
\* holds an answer.
C4_QueryNeverRaises ==
    entry = "query" =>
        /\ qpc # "raised"
        /\ qpc = "returned" => "answer" \in DOMAIN result

\* C5: without a client, every call of generate has returned "[Error: OpenAI
\* API key not configured]" and chat.completions.create was never called.
C5_NoClientAlwaysDisabled ==
    (GenerateReturned /\ ~openai_client) =>
        /\ answer = NO_KEY
        /\ create_calls = 0

\* generate, without a client, was given results that pass the gate.
C5_Witness ==
    /\ GenerateReturned
    /\ ~openai_client
    /\ ~NothingRelevant
    /\ answer = NO_KEY

\* Candidate r of the list rerank was given, whatever its score.
SameCandidate(r, c) == r = [c EXCEPT !.rerank_score = r.rerank_score]

\* C6: when rerank has returned, the list it returned has min(top_k, number
\* of candidates) elements, each of them one of the candidates and no
\* candidate twice, in order of non-increasing score; no candidate left out
\* has a higher score than a returned one; the scorer was given one pair per
\* candidate in one call, and was not called for an empty list, for which
\* the returned list is empty.
C6_RerankTopK ==
    RerankReturned =>
        LET out == reranked_results
            given == rerank_input
            scored == search_results
        IN /\ Len(out) = Min2(top_k, Len(given))
           /\ \A i \in 1..Len(out) :
                 \E j \in 1..Len(given) : SameCandidate(out[i], given[j])
           /\ \A i, j \in 1..Len(out) :
                 out[i].chunk_index = out[j].chunk_index => i = j
           /\ \A i \in 1..(Len(out) - 1) :
                 out[i].rerank_score >= out[i + 1].rerank_score
           /\ Len(scored) = Len(given)
           /\ \A j \in 1..Len(given) :
                 \E k \in 1..Len(scored) : SameCandidate(scored[k], given[j])
           /\ \A k \in 1..Len(scored) :
                 (\A i \in 1..Len(out) : out[i] # scored[k]) =>
                     \A i \in 1..Len(out) :
                         scored[k].rerank_score <= out[i].rerank_score
           /\ pairs_scored = Len(given)
           /\ predict_calls = IF given = <<>> THEN 0 ELSE 1
           /\ given = <<>> => out = <<>>

\* rerank has cut a list down to top_k, moved a candidate to the front, and
\* left out a candidate of every score below the best.
C6_Witness ==
    /\ RerankReturned
    /\ entry = "rerank"
    /\ top_k > 1
    /\ Len(rerank_input) > top_k
    /\ Len(reranked_results) = top_k
    /\ reranked_results[1].chunk_index # rerank_input[1].chunk_index
    /\ reranked_results[1].rerank_score > reranked_results[top_k].rerank_score
    /\ \E k \in 1..Len(search_results) :
          search_results[k].rerank_score < reranked_results[top_k].rerank_score

\* search has returned, and the list it returned is as it left it.
SearchReturned ==
    \/ entry = "search" /\ qpc = "returned"
    \/ entry = "query" /\ qpc = "rerank"

\* The n_results search asked the store for.
Requested == IF entry = "search" THEN top_k ELSE TOP_K_SEARCH

\* C15: when chat.completions.create raised, or gave a response without a
\* choice, generate has returned "[Error generating response: ", the
\* exception's message and "]"; query has not raised, its result holds
\* that answer and, in verbose mode, the first search results and the
\* reranked results with file name, distance or score, and preview.
C15_GenerationFailureInline ==
    gen_outcome.kind \in {"raises", "malformed"} =>
        /\ qpc \in {"result", "returned"}
        /\ answer = "[Error generating response: " \o gen_outcome.text \o "]"
        /\ qpc = "returned" =>
              /\ result.answer = answer
              /\ verbose =>
                    /\ DOMAIN result =
                          {"answer", "search_results", "reranked_results"}
                    /\ Len(result.search_results) =
                          Min2(PREVIEW_RESULTS, Len(search_results))
                    /\ \A i \in 1..Len(result.search_results) :
                          /\ result.search_results[i].filename =
                                search_results[i].filename
                          /\ result.search_results[i].distance =
                                search_results[i].distance
                    /\ Len(result.reranked_results) = Len(reranked_results)
                    /\ \A i \in 1..Len(reranked_results) :
                          /\ result.reranked_results[i].filename =
                                reranked_results[i].filename
                          /\ result.reranked_results[i].score =
                                reranked_results[i].rerank_score
                          /\ TextLen(result.reranked_results[i].text_preview)
                                = PREVIEW_CHARS

\* A verbose query over more search results than the diagnostics show has
\* returned after the response of the model had no choice in it.
C15_Witness ==
    /\ qpc = "returned"
    /\ verbose
    /\ gen_outcome.kind = "malformed"
    /\ Len(search_results) > PREVIEW_RESULTS
    /\ Len(result.reranked_results) = TOP_K_RERANK

\* C16: when search has returned, its list has one element per match of
\* the store's response, in the response's order, with the match's text,
\* file name, chunk index and distance and a score of 0; they are no more
\* than the number asked for, in order of non-decreasing distance; search
\* has not raised, and for a response without matches the list is empty.
C16_SearchMirrorsStore ==
    SearchReturned =>
        /\ Len(search_results) = Len(store_response.documents)
        /\ Len(search_results) <= Requested
        /\ \A i \in 1..Len(search_results) :
              /\ search_results[i].text = store_response.documents[i]
              /\ search_results[i].filename =
                    store_response.metadatas[i].filename
              /\ search_results[i].chunk_index =
                    store_response.metadatas[i].chunk_index
              /\ search_results[i].distance = store_response.distances[i]
              /\ search_results[i].rerank_score = 0
        /\ \A i \in 1..(Len(search_results) - 1) :
              search_results[i].distance <= search_results[i + 1].distance
        /\ store_response.documents = <<>> => search_results = <<>>

\* search, asked for fewer matches than the store can give, has returned
\* as many as asked for, the first nearer than the last.
C16_Witness ==
    /\ entry = "search"
    /\ qpc = "returned"
    /\ top_k > 1
    /\ Len(search_results) = top_k
    /\ search_results[1].distance < search_results[top_k].distance

\* C23: with a client, when generate has returned it has called
\* chat.completions.create once if the results are not empty and their
\* first one is not both farther than 1.0 and scored below 0, and has not
\* called it otherwise; that the distance is exactly 1.0, or the score
\* exactly 0, or what the other results are, does not keep it from calling.
C23_GenerationIffNotGated ==
    (GenerateReturned /\ openai_client) =>
        LET relevant ==
                /\ reranked_results # <<>>
                /\ ~(/\ reranked_results[1].distance > DISTANCE_THRESHOLD
                      /\ reranked_results[1].rerank_score < SCORE_THRESHOLD)
        IN /\ relevant => (create_calls = 1 /\ gen_outcome.kind # "none")
           /\ ~relevant => (create_calls = 0 /\ gen_outcome.kind = "none"
                                /\ answer = NO_INFO)

\* generate, with a client, has called the model for results whose first
\* one is farther than 1.0 with a score of exactly 0, and whose second one
\* is farther than 1.0 with a negative score.
C23_Witness ==
    /\ GenerateReturned
    /\ openai_client
    /\ Len(reranked_results) >= 2
    /\ reranked_results[1].distance > DISTANCE_THRESHOLD
    /\ reranked_results[1].rerank_score = SCORE_THRESHOLD
    /\ reranked_results[2].distance > DISTANCE_THRESHOLD
    /\ reranked_results[2].rerank_score < SCORE_THRESHOLD
    /\ create_calls = 1

\* C24: when a verbose query has returned, the list search returned is
\* still in the order search gave it, rerank having been called on it, and
\* the search_results entry of the result lists the first five matches of
\* the store's response, in the response's order, with their file names
\* and distances.
C24_SearchDiagnosticsInRetrievalOrder ==
    (entry = "query" /\ qpc = "returned" /\ verbose) =>
        /\ \A i \in 1..Len(rerank_input) :
              search_results[i].chunk_index = rerank_input[i].chunk_index
        /\ Len(result.search_results) =
              Min2(PREVIEW_RESULTS, Len(store_response.documents))
        /\ \A i \in 1..Len(result.search_results) :
              /\ result.search_results[i].filename =
                    store_response.metadatas[i].filename
              /\ result.search_results[i].distance =
                    store_response.distances[i]

====
